---- MODULE Spec2Model ----
(***************************************************************************)
(* StorageProxy of aiogram_dialog (context/storage.py): the gateway        *)
(* between the typed dialog entities (Context, Stack, AccessSettings) and  *)
(* the raw key-value store (aiogram BaseStorage).                          *)
(*                                                                         *)
(* Encoding of Python values                                               *)
(*   dict            a function; {} is the function with empty domain      *)
(*   Optional[T]     None is <<>>, a present value v is <<v>>               *)
(*   list            a sequence                                            *)
(*   str (state id)  a sequence of one-character strings, so that          *)
(*                   str.partition(":") is computed character by character *)
(*   str (ids, keys) a TLA+ string; f-strings are \o concatenations         *)
(*   State object    [name, state]: name is the object's identity, state   *)
(*                   the value of its .state property                      *)
(***************************************************************************)
EXTENDS Integers, Sequences, FiniteSets, TLC

VARIABLES store, call, lastWrite, fn, scope, tasks

vars == <<store, call, lastWrite, fn, scope, tasks>>

-----------------------------------------------------------------------------
(* Bounds *)

MaxHistory == 1

MaxMsgId == 1

MaxUserId == 1

-----------------------------------------------------------------------------
(* Python values *)

None == <<>>

Some(v) == <<v>>

EmptyDict == <<>>

Return(v) == [kind |-> "return", value |-> v]

Raise(e, about) == [kind |-> "raise", exc |-> e, about |-> about]

\* dict.get(key): the value, or None when the key is missing
DictGet(d, key) == IF key \in DOMAIN d THEN d[key] ELSE None

\* the dict without one key (what is left after dict.pop(key))
DictWithout(d, key) == [f \in DOMAIN d \ {key} |-> d[f]]

-----------------------------------------------------------------------------
(* Identifiers, state objects and the state-group registry *)

Ids == {"x", "y"}

DataValues == {"d0", "d1"}

\* the six literals of aiogram.enums.ChatMemberStatus
ChatMemberStatusValues ==
    {"creator", "administrator", "member", "restricted", "left", "kicked"}

stateA == [name |-> "Main.step1", state |-> <<"M", ":", "1">>]

stateB == [name |-> "Main.step2", state |-> <<"M", ":", "2">>]

\* another state object with the text of stateA
stateA2 == [name |-> "Main.again", state |-> <<"M", ":", "1">>]

\* a state of a group nested in Main: listed in Main.__all_states__, its
\* text carries the nested group's name
stateN == [name |-> "Main.Sub.step1", state |-> <<"O", ":", "1">>]

\* a state object that no registered group lists
stateZ == [name |-> "Gone.step9", state |-> <<"M", ":", "9">>]

StateObjects == {stateA, stateB, stateA2, stateN, stateZ}

\* Dict[str, Type[StatesGroup]]: group name -> __all_states__ in order
MainGroups == (<<"M">> :> <<stateA, stateB, stateN>>)

\* the same group with stateA2 declared after stateA
DuplicateGroups == (<<"M">> :> <<stateA, stateB, stateA2, stateN>>)

\* every state object some group of the registry lists
RegistryStates(groups) ==
    UNION {{groups[g][i] : i \in 1..Len(groups[g])} : g \in DOMAIN groups}

-----------------------------------------------------------------------------
(* The proxy: StorageProxy.__init__ *)

\* The two ways a BaseStorage can hand out a record on get_data: a mapping
\* of its own for every call (a copy, or the record decoded anew), or the
\* very mapping it keeps under the key.
CopyingStorage == "copying"

SharingStorage == "sharing"

StorageProxy(storage, bot_id, chat_id, user_id, thread_id, chat_type, groups) ==
    [storage |-> storage,
     bot_id |-> bot_id, chat_id |-> chat_id, user_id |-> user_id,
     thread_id |-> thread_id, chat_type |-> chat_type,
     state_groups |-> groups]

MainProxy ==
    StorageProxy(CopyingStorage, 1, 1, 1, None, "private", MainGroups)

\* the proxy of the same conversation on a store that hands out the mapping
\* it keeps
SharingProxy ==
    StorageProxy(SharingStorage, 1, 1, 1, None, "private", MainGroups)

Proxies == {MainProxy}

\* a proxy of the conversation of MainProxy, built with another chat_type
TwinProxy ==
    StorageProxy(CopyingStorage, 1, 1, 1, None, "group", MainGroups)

\* proxies of other conversations: another bot, chat, user, thread
OtherBot ==
    StorageProxy(CopyingStorage, 2, 1, 1, None, "private", MainGroups)

OtherChat ==
    StorageProxy(CopyingStorage, 1, 2, 1, None, "private", MainGroups)

OtherUser ==
    StorageProxy(CopyingStorage, 1, 1, 2, None, "private", MainGroups)

OtherThread ==
    StorageProxy(CopyingStorage, 1, 1, 1, Some(7), "private", MainGroups)

OtherProxies == {OtherBot, OtherChat, OtherUser, OtherThread}

\* the same bot, chat, user and thread
SameConversation(p, q) ==
    /\ p.bot_id = q.bot_id
    /\ p.chat_id = q.chat_id
    /\ p.user_id = q.user_id
    /\ p.thread_id = q.thread_id

\* _context_key altered: the thread takes no part in the key
_context_key_without_thread(self, intent_id) ==
    [bot_id |-> self.bot_id, chat_id |-> self.chat_id,
     user_id |-> self.user_id, thread_id |-> None,
     destiny |-> ("aiogd:context:" \o intent_id)]

_context_key(self, intent_id) ==
    [bot_id |-> self.bot_id, chat_id |-> self.chat_id,
     user_id |-> self.user_id, thread_id |-> self.thread_id,
     destiny |-> ("aiogd:context:" \o intent_id)]

\* _stack_key altered: the destiny of a context key
_stack_key_as_context(self, stack_id) ==
    [bot_id |-> self.bot_id, chat_id |-> self.chat_id,
     user_id |-> self.user_id, thread_id |-> self.thread_id,
     destiny |-> ("aiogd:context:" \o stack_id)]

_stack_key(self, stack_id) ==
    [bot_id |-> self.bot_id, chat_id |-> self.chat_id,
     user_id |-> self.user_id, thread_id |-> self.thread_id,
     destiny |-> ("aiogd:stack:" \o stack_id)]

-----------------------------------------------------------------------------
(* Objects *)

\* Objects of a call: a heap maps a reference to the attributes or items of
\* an object.  The caller's entity is the object "entity"; vars(entity) is a
\* reference to that same object.
Heap(entity) == ("entity" :> entity)

\* copy altered: no new object, the reference handed in is handed back
copy_same(heap, ref) == [heap |-> heap, ref |-> ref]

\* copy(x): a new object with the items of x
copy(heap, ref) == [heap |-> ("copy" :> heap[ref]) @@ heap, ref |-> "copy"]

\* d[key] = value on the object behind ref
SetItem(heap, ref, key, value) ==
    [heap EXCEPT ![ref] =
        [f \in DOMAIN heap[ref] \cup {key} |->
            IF f = key THEN value ELSE heap[ref][f]]]

\* d.pop(key) on the object behind ref
DelItem(heap, ref, key) ==
    [heap EXCEPT ![ref] = [f \in DOMAIN heap[ref] \ {key} |-> heap[ref][f]]]

\* a State object as an item of a mapping: the reference to it
StateRef(state) == <<"State", state.name>>

IsStateRef(value) == Len(value) = 2 /\ value[1] = "State"

-----------------------------------------------------------------------------
(* The store: BaseStorage.get_data / set_data *)

\* the mapping the store keeps under the key, as the object "record"; {} for
\* a key that was never written
Held(st, key) ==
    ("record" :> (IF key \in DOMAIN st THEN st[key] ELSE EmptyDict))

\* get_data: a reference to the mapping handed to the caller, which is the
\* object the store keeps or a new object, by the kind of store
get_data(self, st, key) ==
    IF self.storage = SharingStorage /\ key \in DOMAIN st
    THEN [heap |-> Held(st, key), ref |-> "record"]
    ELSE [heap |-> ("data" :> Held(st, key)["record"]) @@ Held(st, key),
          ref |-> "data"]

\* the store when the call is over: under the key, the object it keeps
StoreAfter(st, key, heap) ==
    IF key \in DOMAIN st THEN (key :> heap["record"]) @@ st ELSE st

\* set_data: the mapping replaces whatever the key held
set_data(st, key, data) == (key :> data) @@ st

-----------------------------------------------------------------------------
(* State resolution: StorageProxy._state *)

\* str.partition(":")[0]: the characters before the first ":", all of the
\* string when it has none
RECURSIVE PartitionHead(_)
PartitionHead(s) ==
    IF s = <<>> THEN <<>>
    ELSE IF Head(s) = ":" THEN <<>>
    ELSE <<Head(s)>> \o PartitionHead(Tail(s))

\* ScanStates altered: the members are tried from the last one backwards
RECURSIVE ScanStatesLast(_, _, _)
ScanStatesLast(members, state, i) ==
    IF i > Len(members) THEN Raise("UnknownState", "state")
    ELSE IF members[Len(members) + 1 - i].state = state
    THEN Return(members[Len(members) + 1 - i])
    ELSE ScanStatesLast(members, state, i + 1)

\* the for loop over __all_states__ from position i: the first member whose
\* .state equals the text, else the final raise
RECURSIVE ScanStates(_, _, _)
ScanStates(members, state, i) ==
    IF i > Len(members) THEN Raise("UnknownState", "state")
    ELSE IF members[i].state = state THEN Return(members[i])
    ELSE ScanStates(members, state, i + 1)

\* _state altered: a text of an unregistered group gets a new state object
_state_fresh(self, state) ==
    LET group == PartitionHead(state)
    IN  IF IsStateRef(state)
        THEN Raise("AttributeError", "partition")
        ELSE IF group \notin DOMAIN self.state_groups
        THEN Return([name |-> "fresh", state |-> state])
        ELSE ScanStates(self.state_groups[group], state, 1)

\* state is the item read from the record: a text, or a State object, which
\* has no partition
_state(self, state) ==
    LET group == PartitionHead(state)
    IN  IF IsStateRef(state)
        THEN Raise("AttributeError", "partition")
        ELSE IF group \notin DOMAIN self.state_groups
        THEN Raise("UnknownState", "group")
        ELSE ScanStates(self.state_groups[group], state, 1)

-----------------------------------------------------------------------------
(* Access settings: _parse_access_settings / _dump_access_settings *)

AccessSettings(user_ids, member_status, custom) ==
    [user_ids |-> user_ids, member_status |-> member_status,
     custom |-> custom]

\* ChatMemberStatus(raw): the enum member of that value, ValueError otherwise
ChatMemberStatus(raw) ==
    IF raw \in ChatMemberStatusValues
    THEN Return(Some(raw))
    ELSE Raise("ValueError", "member_status")

\* _parse_access_settings altered: an unknown member status is dropped
_parse_access_settings_lenient(raw) ==
    IF raw = None \/ DOMAIN raw[1] = {}
    THEN Return(None)
    ELSE LET d == raw[1]
             raw_member_status == DictGet(d, "member_status")
             member_status ==
                 IF raw_member_status # None
                      /\ raw_member_status[1] \in ChatMemberStatusValues
                 THEN raw_member_status
                 ELSE None
             user_ids ==
                 IF "user_ids" \in DOMAIN d /\ d.user_ids # <<>>
                 THEN d.user_ids
                 ELSE <<>>
         IN  Return(Some(AccessSettings(
                 user_ids, member_status, DictGet(d, "custom"))))

\* raw is Optional[Dict]
_parse_access_settings(raw) ==
    IF raw = None \/ DOMAIN raw[1] = {}
    THEN Return(None)
    ELSE LET d == raw[1]
             raw_member_status == DictGet(d, "member_status")
             member_status ==
                 IF raw_member_status # None /\ raw_member_status[1] # ""
                 THEN ChatMemberStatus(raw_member_status[1])
                 ELSE Return(None)
             \* raw.get("user_ids") or []: a missing, None or empty value
             \* gives the empty list
             user_ids ==
                 IF "user_ids" \in DOMAIN d /\ d.user_ids # <<>>
                 THEN d.user_ids
                 ELSE <<>>
         IN  IF member_status.kind = "raise"
             THEN member_status
             ELSE Return(Some(AccessSettings(
                      user_ids, member_status.value, DictGet(d, "custom"))))

\* _dump_access_settings altered: settings without user ids count as absent
_dump_access_settings_by_users(access_settings) ==
    IF access_settings = None \/ access_settings[1].user_ids = <<>>
    THEN None
    ELSE Some([user_ids |-> access_settings[1].user_ids,
               member_status |-> access_settings[1].member_status,
               custom |-> access_settings[1].custom])

\* access_settings is Optional[AccessSettings]; an AccessSettings object is
\* always truthy
_dump_access_settings(access_settings) ==
    IF access_settings = None
    THEN None
    ELSE Some([user_ids |-> access_settings[1].user_ids,
               member_status |-> access_settings[1].member_status,
               custom |-> access_settings[1].custom])

-----------------------------------------------------------------------------
(* Entities: aiogram_dialog.api.entities *)

Context(id, state, dialog_data) ==
    [id |-> id, state |-> state, dialog_data |-> dialog_data]

\* Context(**data)
ContextFromData(data) == Context(data.id, data.state, data.dialog_data)

Stack(_id, history, last_message_id, access_settings) ==
    [_id |-> _id, history |-> history,
     last_message_id |-> last_message_id,
     access_settings |-> access_settings]

\* Stack(access_settings=..., **data): fields the mapping lacks take the
\* dataclass defaults
StackFromData(access_settings, data) ==
    Stack(data._id,
          IF "history" \in DOMAIN data THEN data.history ELSE <<>>,
          DictGet(data, "last_message_id"),
          access_settings)

\* Stack.empty(): no history
StackEmpty(stack) == stack.history = <<>>

\* Stack.id / Context.id
StackId(stack) == stack._id

\* truth value of an Optional[int]: None and 0 are false
IntTruthy(n) == n # None /\ n[1] # 0

-----------------------------------------------------------------------------
(* Operations of the proxy, as functions of the store.  Each yields the     *)
(* store afterwards, the outcome for the caller and the store accesses it  *)
(* made, in order.                                                         *)

Result(st, outcome, accesses) ==
    [store |-> st, outcome |-> outcome, accesses |-> accesses]

\* load_context altered: the state text is handed on unresolved
load_context_unresolved(self, st, intent_id) ==
    LET key == _context_key(self, intent_id)
        data == get_data(self, st, key)
        acc == <<<<"get_data", key>>>>
    IN  IF DOMAIN data.heap[data.ref] = {}
        THEN Result(st, Raise("UnknownIntent", intent_id), acc)
        ELSE Result(st, Return(ContextFromData(data.heap[data.ref])), acc)

\* load_context altered: a missing record is read a second time
load_context_retry(self, st, intent_id) ==
    LET key == _context_key(self, intent_id)
        data == get_data(self, st, key)
        acc == <<<<"get_data", key>>>>
    IN  IF DOMAIN data.heap[data.ref] = {}
        THEN Result(st, Raise("UnknownIntent", intent_id), 
                    acc \o <<<<"get_data", key>>>>)
        ELSE LET real_state == _state(self, data.heap[data.ref].state)
             IN  IF real_state.kind = "raise"
                 THEN Result(st, real_state, acc)
                 ELSE LET heap == SetItem(data.heap, data.ref, "state",
                                          StateRef(real_state.value))
                      IN  Result(StoreAfter(st, key, heap),
                              Return(ContextFromData(
                                  [heap[data.ref] EXCEPT
                                      !.state = real_state.value])),
                              acc)

\* data["state"] = ... is an assignment to the mapping get_data handed out
load_context(self, st, intent_id) ==
    LET key == _context_key(self, intent_id)
        data == get_data(self, st, key)
        acc == <<<<"get_data", key>>>>
    IN  IF DOMAIN data.heap[data.ref] = {}
        THEN Result(st, Raise("UnknownIntent", intent_id), acc)
        ELSE LET real_state == _state(self, data.heap[data.ref].state)
             IN  IF real_state.kind = "raise"
                 THEN Result(st, real_state, acc)
                 ELSE LET heap == SetItem(data.heap, data.ref, "state",
                                          StateRef(real_state.value))
                      IN  Result(StoreAfter(st, key, heap),
                              Return(ContextFromData(
                                  [heap[data.ref] EXCEPT
                                      !.state = real_state.value])),
                              acc)

\* load_stack altered: a missing record is an error, as for a context
load_stack_raising(self, st, stack_id) ==
    LET key == _stack_key(self, stack_id)
        data == get_data(self, st, key)
        acc == <<<<"get_data", key>>>>
    IN  IF DOMAIN data.heap[data.ref] = {}
        THEN Result(st, Raise("UnknownIntent", stack_id), acc)
        ELSE IF "access_settings" \notin DOMAIN data.heap[data.ref]
        THEN Result(st, Raise("KeyError", "access_settings"), acc)
        ELSE LET access_settings ==
                     _parse_access_settings(
                         data.heap[data.ref].access_settings)
                 heap == DelItem(data.heap, data.ref, "access_settings")
             IN  IF access_settings.kind = "raise"
                 THEN Result(StoreAfter(st, key, heap), access_settings, acc)
                 ELSE Result(StoreAfter(st, key, heap),
                          Return(StackFromData(access_settings.value,
                                               heap[data.ref])),
                          acc)

\* data.pop("access_settings") takes the item out of the mapping get_data
\* handed out, before the settings are parsed
load_stack(self, st, stack_id) ==
    LET key == _stack_key(self, stack_id)
        data == get_data(self, st, key)
        acc == <<<<"get_data", key>>>>
    IN  IF DOMAIN data.heap[data.ref] = {}
        THEN Result(st, Return(Stack(stack_id, <<>>, None, None)), acc)
        ELSE IF "access_settings" \notin DOMAIN data.heap[data.ref]
        THEN Result(st, Raise("KeyError", "access_settings"), acc)
        ELSE LET access_settings ==
                     _parse_access_settings(
                         data.heap[data.ref].access_settings)
                 heap == DelItem(data.heap, data.ref, "access_settings")
             IN  IF access_settings.kind = "raise"
                 THEN Result(StoreAfter(st, key, heap), access_settings, acc)
                 ELSE Result(StoreAfter(st, key, heap),
                          Return(StackFromData(access_settings.value,
                                               heap[data.ref])),
                          acc)

\* the result of a save: entity is the caller's object as the call leaves it
Saved(st, outcome, accesses, heap) ==
    [store |-> st, outcome |-> outcome, accesses |-> accesses,
     entity |-> Some(heap["entity"])]

\* save_context altered: a populated record is kept, the first write wins
save_context_first_wins(self, st, context) ==
    IF context = None
    THEN Result(st, Return(None), <<>>)
    ELSE LET data == [context[1] EXCEPT !.state = context[1].state.state]
             key == _context_key(self, context[1].id)
         IN  IF DOMAIN Held(st, key)["record"] = {}
             THEN Result(set_data(st, key, data), Return(None),
                         <<<<"set_data", key>>>>)
             ELSE Result(set_data(st, key, st[key]), Return(None),
                         <<<<"set_data", key>>>>)

\* save_context altered: the dialog_data of a record already stored is kept
save_context_keeping_data(self, st, context) ==
    IF context = None
    THEN Result(st, Return(None), <<>>)
    ELSE LET data == copy(Heap(context[1]), "entity")
             key == _context_key(self, context[1].id)
             flat == SetItem(data.heap, data.ref, "state",
                             data.heap[data.ref].state.state)
             heap == IF DOMAIN Held(st, key)["record"] = {} THEN flat
                     ELSE SetItem(flat, data.ref, "dialog_data",
                                  st[key].dialog_data)
         IN  Saved(set_data(st, key, heap[data.ref]), Return(None),
                   <<<<"set_data", key>>>>, heap)

\* context is Optional[Context]
save_context(self, st, context) ==
    IF context = None
    THEN Result(st, Return(None), <<>>)
    ELSE LET data == copy(Heap(context[1]), "entity")
             heap == SetItem(data.heap, data.ref, "state",
                             data.heap[data.ref].state.state)
             key == _context_key(self, context[1].id)
         IN  Saved(set_data(st, key, heap[data.ref]), Return(None),
                   <<<<"set_data", key>>>>, heap)

\* remove_context altered: the tombstone goes under the stack key
remove_context_stack_key(self, st, intent_id) ==
    LET key == _stack_key(self, intent_id)
    IN  Result(set_data(st, key, EmptyDict), Return(None),
               <<<<"set_data", key>>>>)

remove_context(self, st, intent_id) ==
    LET key == _context_key(self, intent_id)
    IN  Result(set_data(st, key, EmptyDict), Return(None),
               <<<<"set_data", key>>>>)

remove_stack(self, st, stack_id) ==
    LET key == _stack_key(self, stack_id)
    IN  Result(set_data(st, key, EmptyDict), Return(None),
               <<<<"set_data", key>>>>)

\* save_stack altered: a stack that carries access settings is never a tombstone
save_stack_keeping_settings(self, st, stack) ==
    IF stack = None
    THEN Result(st, Return(None), <<>>)
    ELSE LET s == stack[1]
             key == _stack_key(self, StackId(s))
         IN  IF StackEmpty(s) /\ ~IntTruthy(s.last_message_id)
                /\ s.access_settings = None
             THEN Result(set_data(st, key, EmptyDict), Return(None),
                         <<<<"set_data", key>>>>)
             ELSE LET data == [s EXCEPT !.access_settings =
                                  _dump_access_settings(s.access_settings)]
                  IN  Result(set_data(st, key, data), Return(None),
                             <<<<"set_data", key>>>>)

\* save_stack altered: a stack with no history and no message counts as absent
save_stack_absent_when_empty(self, st, stack) ==
    IF stack = None \/ (StackEmpty(stack[1]) /\ ~IntTruthy(stack[1].last_message_id))
    THEN Result(st, Return(None), <<>>)
    ELSE LET s == stack[1]
             key == _stack_key(self, StackId(s))
             data == [s EXCEPT !.access_settings =
                         _dump_access_settings(s.access_settings)]
         IN  Result(set_data(st, key, data), Return(None),
                    <<<<"set_data", key>>>>)

\* stack is Optional[Stack]
save_stack(self, st, stack) ==
    IF stack = None
    THEN Result(st, Return(None), <<>>)
    ELSE LET s == stack[1]
             key == _stack_key(self, StackId(s))
         IN  IF StackEmpty(s) /\ ~IntTruthy(s.last_message_id)
             THEN Saved(set_data(st, key, EmptyDict), Return(None),
                        <<<<"set_data", key>>>>, Heap(s))
             ELSE LET data == copy(Heap(s), "entity")
                      heap == SetItem(data.heap, data.ref, "access_settings",
                                      _dump_access_settings(
                                          s.access_settings))
                  IN  Saved(set_data(st, key, heap[data.ref]), Return(None),
                            <<<<"set_data", key>>>>, heap)

-----------------------------------------------------------------------------
(* Inputs of the calls *)

ContextValues ==
    {Context(i, s, d) : i \in Ids, s \in StateObjects, d \in DataValues}

HistoryValues == UNION {[1..n -> {"x"}] : n \in 0..MaxHistory}

MsgIdValues == {None} \cup {Some(n) : n \in 0..MaxMsgId}

UserIdLists == {<<>>} \cup {<<u>> : u \in 1..MaxUserId}

StackAccessValues ==
    {None, Some(AccessSettings(<<>>, None, None))}
    \cup {Some(AccessSettings(<<u>>, Some("administrator"), Some("c")))
             : u \in 1..MaxUserId}

StackValues ==
    {Stack(i, h, m, a) : i \in Ids, h \in HistoryValues,
                         m \in MsgIdValues, a \in StackAccessValues}

\* stack records other writers of the shared store leave under a stack key:
\* one written before the access_settings field existed, one with an empty
\* access_settings mapping, one with an unknown member status, and one whose
\* access_settings holds an empty member status and nothing else, one whose
\* access_settings holds a custom value and nothing else
ForeignStackRecords(stack_id) ==
    { [_id |-> stack_id, history |-> <<"x">>, last_message_id |-> None],
      [_id |-> stack_id, history |-> <<"x">>, last_message_id |-> None,
       access_settings |-> Some(EmptyDict)],
      [_id |-> stack_id, history |-> <<"x">>, last_message_id |-> None,
       access_settings |-> Some([user_ids |-> <<1>>,
                                 member_status |-> Some("boss"),
                                 custom |-> None])],
      [_id |-> stack_id, history |-> <<"x">>, last_message_id |-> None,
       access_settings |-> Some([member_status |-> Some("")])],
      [_id |-> stack_id, history |-> <<"x">>, last_message_id |-> None,
       access_settings |-> Some([custom |-> Some("c")])] }

-----------------------------------------------------------------------------
(* State machine.  A call is a coroutine: it runs from the call to its     *)
(* `await self.storage...` (the call step, named after the method), the    *)
(* storage carries out the access later (StorageGetData, StorageSetData)   *)
(* and the coroutine is resumed with the answer later still (ResumeLoad,   *)
(* ResumeWrite); steps of other callers may come in between.  A call that  *)
(* reaches no await is over within its call step.                          *)
(*   store      the content of the BaseStorage                              *)
(*   call       the last completed call: operation, proxy, argument,        *)
(*              outcome, the store accesses it made; for a save, the        *)
(*              caller's entity as the call left it; for a load, the        *)
(*              mapping the storage read for it and the write that record   *)
(*              came from                                                   *)
(*   lastWrite  per key, the call that last wrote it (history variable)     *)
(*   scope      what the callers of this run use: their names, the proxies, *)
(*              the intent and stack identifiers, the contexts and stacks   *)
(*              they save                                                   *)
(*   fn         input and output of the last pure-function application      *)
(*   tasks      the calls in flight, per caller: the call, whether the      *)
(*              storage has carried out its access, and what it answered    *)

Idle == [op |-> "none"]

\* keys written by a sequence of accesses
Written(accesses) ==
    {accesses[i][2] : i \in {j \in 1..Len(accesses) :
                                accesses[j][1] = "set_data"}}

\* the record of a completed call
Called(op, self, arg, r) ==
    [op |-> op, self |-> self, arg |-> arg,
     outcome |-> r.outcome, accesses |-> r.accesses,
     entity |-> IF "entity" \in DOMAIN r THEN r.entity ELSE None,
     read |-> IF "read" \in DOMAIN r THEN Some(r.read) ELSE None,
     source |-> IF "source" \in DOMAIN r THEN r.source ELSE None]

\* lastWrite after a call
Recorded(op, self, arg, r) ==
    [k \in DOMAIN lastWrite \cup Written(r.accesses) |->
        IF k \in Written(r.accesses)
        THEN [op |-> op, self |-> self, arg |-> arg]
        ELSE lastWrite[k]]

OneId == {"x"}

\* one caller, who awaits each call before making the next
OneCaller == {"a"}

\* two callers, whose calls may be in flight together
Callers == {"a", "b"}

Scope(callers, proxies, intent_ids, stack_ids, contexts, stacks) ==
    [callers |-> callers, proxies |-> proxies,
     intent_ids |-> intent_ids, stack_ids |-> stack_ids,
     contexts |-> contexts, stacks |-> stacks]

\* every context and every stack of the given identifiers
ScopeOf(callers, proxies, identifiers) ==
    Scope(callers, proxies, identifiers, identifiers,
          {v \in ContextValues : v.id \in identifiers},
          {v \in StackValues : v._id \in identifiers})

LoadOps == {"load_context", "load_stack"}

WriteOps == {"save_context", "save_stack", "remove_context", "remove_stack"}

\* a call made, suspended at its await
Awaiting(op, self, arg) ==
    [pc |-> "called", op |-> op, self |-> self, arg |-> arg]

\* the method a task runs, on the storage st
Run(task, st) ==
    CASE task.op = "load_context" -> load_context(task.self, st, task.arg)
      [] task.op = "load_stack" -> load_stack(task.self, st, task.arg)
      [] task.op = "save_context" -> save_context(task.self, st, task.arg)
      [] task.op = "save_stack" -> save_stack(task.self, st, task.arg)
      [] task.op = "remove_context" ->
            remove_context(task.self, st, task.arg)
      [] task.op = "remove_stack" -> remove_stack(task.self, st, task.arg)

\* the loads that hold the mapping the store keeps under one of the keys
Holders(keys) ==
    {u \in DOMAIN tasks :
        /\ tasks[u].pc = "answered"
        /\ tasks[u].op \in LoadOps
        /\ tasks[u].holds = "kept"
        /\ tasks[u].key \in keys}

\* the tasks after the store has replaced the records under the keys by new
\* mappings: the mapping a load holds is then kept by the store no longer,
\* the loads that hold it still share it
Orphaned(pending, keys) ==
    [u \in DOMAIN pending |->
        IF u \in Holders(keys)
        THEN [pending[u] EXCEPT
                 !.holds = "orphan",
                 !.data = store[pending[u].key],
                 !.group = {v \in Holders(keys) :
                               tasks[v].key = tasks[u].key}]
        ELSE pending[u]]

\* every operation, on the context and the stack of one identifier
Init ==
    /\ store = <<>>
    /\ call = Idle
    /\ lastWrite = <<>>
    /\ tasks = <<>>
    /\ fn = Idle
    /\ scope = ScopeOf(OneCaller, Proxies, OneId)

LoadContext ==
    \E t \in scope.callers \ DOMAIN tasks :
        \E self \in scope.proxies, intent_id \in scope.intent_ids :
            /\ tasks' = (t :> Awaiting("load_context", self, intent_id))
                           @@ tasks
            /\ UNCHANGED <<store, call, lastWrite, fn, scope>>

LoadStack ==
    \E t \in scope.callers \ DOMAIN tasks :
        \E self \in scope.proxies, stack_id \in scope.stack_ids :
            /\ tasks' = (t :> Awaiting("load_stack", self, stack_id))
                           @@ tasks
            /\ UNCHANGED <<store, call, lastWrite, fn, scope>>

SaveContext ==
    \E t \in scope.callers \ DOMAIN tasks :
        \E self \in scope.proxies :
            \E context \in {None} \cup {Some(c) : c \in scope.contexts} :
                LET r == save_context(self, store, context)
                IN  IF r.accesses = <<>>
                    THEN /\ store' = r.store
                         /\ call' = Called("save_context", self, context, r)
                         /\ UNCHANGED <<lastWrite, fn, scope, tasks>>
                    ELSE /\ tasks' = (t :> Awaiting("save_context", self,
                                                    context)) @@ tasks
                         /\ UNCHANGED <<store, call, lastWrite, fn, scope>>

RemoveContext ==
    \E t \in scope.callers \ DOMAIN tasks :
        \E self \in scope.proxies, intent_id \in scope.intent_ids :
            /\ tasks' = (t :> Awaiting("remove_context", self, intent_id))
                           @@ tasks
            /\ UNCHANGED <<store, call, lastWrite, fn, scope>>

RemoveStack ==
    \E t \in scope.callers \ DOMAIN tasks :
        \E self \in scope.proxies, stack_id \in scope.stack_ids :
            /\ tasks' = (t :> Awaiting("remove_stack", self, stack_id))
                           @@ tasks
            /\ UNCHANGED <<store, call, lastWrite, fn, scope>>

SaveStack ==
    \E t \in scope.callers \ DOMAIN tasks :
        \E self \in scope.proxies :
            \E stack \in {None} \cup {Some(s) : s \in scope.stacks} :
                LET r == save_stack(self, store, stack)
                IN  IF r.accesses = <<>>
                    THEN /\ store' = r.store
                         /\ call' = Called("save_stack", self, stack, r)
                         /\ UNCHANGED <<lastWrite, fn, scope, tasks>>
                    ELSE /\ tasks' = (t :> Awaiting("save_stack", self,
                                                    stack)) @@ tasks
                         /\ UNCHANGED <<store, call, lastWrite, fn, scope>>

\* the storage carries out the get_data a load awaits
StorageGetData ==
    \E t \in DOMAIN tasks :
        /\ tasks[t].pc = "called"
        /\ tasks[t].op \in LoadOps
        /\ LET key == Run(tasks[t], store).accesses[1][2]
               got == get_data(tasks[t].self, store, key)
           IN  tasks' = [tasks EXCEPT ![t] =
                   [pc |-> "answered", op |-> tasks[t].op,
                    self |-> tasks[t].self, arg |-> tasks[t].arg,
                    key |-> key,
                    holds |-> IF got.ref = "record" THEN "kept" ELSE "own",
                    data |-> IF got.ref = "record" THEN EmptyDict
                             ELSE got.heap[got.ref],
                    group |-> {},
                    read |-> got.heap[got.ref],
                    source |-> IF key \in DOMAIN lastWrite
                               THEN Some(lastWrite[key]) ELSE None]]
        /\ UNCHANGED <<store, call, lastWrite, fn, scope>>

\* the storage carries out the set_data a save or remove awaits
StorageSetData ==
    \E t \in DOMAIN tasks :
        /\ tasks[t].pc = "called"
        /\ tasks[t].op \in WriteOps
        /\ LET r == Run(tasks[t], store)
           IN  /\ store' = r.store
               /\ lastWrite' = Recorded(tasks[t].op, tasks[t].self,
                                        tasks[t].arg, r)
               /\ tasks' = Orphaned(
                      [tasks EXCEPT ![t] =
                          [pc |-> "answered", op |-> tasks[t].op,
                           self |-> tasks[t].self, arg |-> tasks[t].arg,
                           outcome |-> r.outcome, accesses |-> r.accesses,
                           entity |-> IF "entity" \in DOMAIN r
                                      THEN r.entity ELSE None]],
                      Written(r.accesses))
        /\ UNCHANGED <<call, fn, scope>>

\* a load is resumed with the mapping the storage answers and runs to its
\* end: what it writes into that mapping is written into the record of the
\* store when the mapping is the one the store keeps
ResumeLoad ==
    \E t \in DOMAIN tasks :
        /\ tasks[t].pc = "answered"
        /\ tasks[t].op \in LoadOps
        /\ LET task == tasks[t]
               r == Run(task, IF task.holds = "kept" THEN store
                              ELSE (task.key :> task.data))
           IN  /\ store' = IF task.holds = "kept" THEN r.store ELSE store
               /\ call' = Called(task.op, task.self, task.arg,
                                 [outcome |-> r.outcome,
                                  accesses |-> r.accesses,
                                  read |-> task.read,
                                  source |-> task.source])
               /\ tasks' = [u \in DOMAIN tasks \ {t} |->
                              IF /\ task.holds = "orphan"
                                 /\ tasks[u].pc = "answered"
                                 /\ tasks[u].op \in LoadOps
                                 /\ tasks[u].holds = "orphan"
                                 /\ tasks[u].key = task.key
                                 /\ tasks[u].group = task.group
                              THEN [tasks[u] EXCEPT
                                       !.data = r.store[task.key]]
                              ELSE tasks[u]]
        /\ UNCHANGED <<lastWrite, fn, scope>>

\* a save or remove is resumed when its set_data is over, and returns
ResumeWrite ==
    \E t \in DOMAIN tasks :
        /\ tasks[t].pc = "answered"
        /\ tasks[t].op \in WriteOps
        /\ call' = Called(tasks[t].op, tasks[t].self, tasks[t].arg, tasks[t])
        /\ tasks' = [u \in DOMAIN tasks \ {t} |-> tasks[u]]
        /\ UNCHANGED <<store, lastWrite, fn, scope>>

\* another writer of the shared store puts a record under a stack key
ForeignSetData ==
    \E self \in scope.proxies, stack_id \in scope.stack_ids :
        \E data \in ForeignStackRecords(stack_id) :
            LET key == _stack_key(self, stack_id)
                r == Result(set_data(store, key, data), Return(None),
                            <<<<"set_data", key>>>>)
            IN  /\ store' = r.store
                /\ call' = Called("set_data", self, data, r)
                /\ lastWrite' = Recorded("set_data", self, data, r)
                /\ tasks' = Orphaned(tasks, {key})
                /\ UNCHANGED <<fn, scope>>

Next ==
    \/ LoadContext
    \/ LoadStack
    \/ SaveContext
    \/ RemoveContext
    \/ RemoveStack
    \/ SaveStack
    \/ StorageGetData
    \/ StorageSetData
    \/ ResumeLoad
    \/ ResumeWrite

Spec == Init /\ [][Next]_vars

\* SpecContext: the context operations, on every identifier

InitContext ==
    /\ store = <<>>
    /\ call = Idle
    /\ lastWrite = <<>>
    /\ tasks = <<>>
    /\ fn = Idle
    /\ scope = ScopeOf(OneCaller, Proxies, Ids)

NextContext ==
    \/ LoadContext
    \/ SaveContext
    \/ RemoveContext
    \/ StorageGetData
    \/ StorageSetData
    \/ ResumeLoad
    \/ ResumeWrite

SpecContext == InitContext /\ [][NextContext]_vars

\* SpecStack: the stack operations and the foreign writes, on one identifier

InitStack ==
    /\ store = <<>>
    /\ call = Idle
    /\ lastWrite = <<>>
    /\ tasks = <<>>
    /\ fn = Idle
    /\ scope = ScopeOf(OneCaller, Proxies, OneId)

NextStack ==
    \/ LoadStack
    \/ SaveStack
    \/ RemoveStack
    \/ StorageGetData
    \/ StorageSetData
    \/ ResumeLoad
    \/ ResumeWrite
    \/ ForeignSetData

SpecStack == InitStack /\ [][NextStack]_vars

\* SpecLoads: two callers with the loads and the saves of one identifier,
\* over a store of either kind

SharedContexts ==
    {Context("x", stateA, "d0"), Context("x", stateB, "d1")}

SharedStacks ==
    {Stack("x", <<"x">>, None, None),
     Stack("x", <<>>, Some(1),
           Some(AccessSettings(<<1>>, Some("administrator"), Some("c"))))}

InitLoads ==
    /\ store = <<>>
    /\ call = Idle
    /\ lastWrite = <<>>
    /\ tasks = <<>>
    /\ fn = Idle
    /\ \E self \in {MainProxy, SharingProxy} :
          scope = Scope(Callers, {self}, OneId, OneId,
                        SharedContexts,
                        {v \in SharedStacks : v.access_settings # None})

NextLoads ==
    \/ LoadContext
    \/ LoadStack
    \/ SaveContext
    \/ SaveStack
    \/ StorageGetData
    \/ StorageSetData
    \/ ResumeLoad
    \/ ResumeWrite

SpecLoads == InitLoads /\ [][NextLoads]_vars

\* SpecWrites: two callers with the saves and removes alone, from the empty
\* store, on a context of every identifier and the stacks of one

InitWrites ==
    /\ store = <<>>
    /\ call = Idle
    /\ lastWrite = <<>>
    /\ tasks = <<>>
    /\ fn = Idle
    /\ scope = Scope(Callers, Proxies, Ids, OneId,
                     {Context("x", stateA, "d0"), Context("y", stateB, "d0")},
                     {v \in StackValues :
                         /\ v._id \in OneId
                         /\ v.access_settings = None
                         /\ v.last_message_id \in {None, Some(0)}})

NextWrites ==
    \/ SaveContext
    \/ RemoveContext
    \/ SaveStack
    \/ RemoveStack
    \/ StorageSetData
    \/ ResumeWrite

SpecWrites == InitWrites /\ [][NextWrites]_vars

\* SpecProxies: two proxies of one conversation on one store, MainProxy and
\* its twin, with every operation on one identifier

InitProxies ==
    /\ store = <<>>
    /\ call = Idle
    /\ lastWrite = <<>>
    /\ tasks = <<>>
    /\ fn = Idle
    /\ scope = Scope(OneCaller, {MainProxy, TwinProxy}, OneId, OneId,
                     SharedContexts, SharedStacks)

NextProxies ==
    \/ LoadContext
    \/ LoadStack
    \/ SaveContext
    \/ RemoveContext
    \/ RemoveStack
    \/ SaveStack
    \/ StorageGetData
    \/ StorageSetData
    \/ ResumeLoad
    \/ ResumeWrite

SpecProxies == InitProxies /\ [][NextProxies]_vars

\* SpecApart: two proxies on one store, MainProxy and either its twin or a
\* proxy of another conversation, with the saves and removes of one
\* identifier

InitApart ==
    /\ store = <<>>
    /\ call = Idle
    /\ lastWrite = <<>>
    /\ tasks = <<>>
    /\ fn = Idle
    /\ \E q \in {TwinProxy} \cup OtherProxies :
          scope = Scope(OneCaller, {MainProxy, q}, OneId, OneId,
                        SharedContexts, SharedStacks)

NextApart ==
    \/ SaveContext
    \/ RemoveContext
    \/ RemoveStack
    \/ SaveStack
    \/ StorageSetData
    \/ ResumeWrite

SpecApart == InitApart /\ [][NextApart]_vars

\* SpecConcurrent: two callers save entities of one identifier through one
\* proxy, their saves in flight together

InitConcurrent ==
    /\ store = <<>>
    /\ call = Idle
    /\ lastWrite = <<>>
    /\ tasks = <<>>
    /\ fn = Idle
    /\ scope = Scope(Callers, Proxies, OneId, OneId,
                     SharedContexts, SharedStacks)

NextConcurrent ==
    \/ SaveContext
    \/ SaveStack
    \/ StorageSetData
    \/ ResumeWrite

SpecConcurrent == InitConcurrent /\ [][NextConcurrent]_vars

-----------------------------------------------------------------------------
(* SpecState: state resolution as a pure function of the registry and the   *)
(* text, both drawn from bounded sets                                      *)

MaxText == 3

Chars == {"M", "O", ":", "1"}

Texts == UNION {[1..n -> Chars] : n \in 0..MaxText}

\* members whose text has no group part, an empty group part, two separators
stateBare == [name |-> "Main.bare", state |-> <<"M">>]

stateNoGroup == [name |-> "anonymous.step1", state |-> <<":", "1">>]

stateColons == [name |-> "Main.colons", state |-> <<"M", ":", ":">>]

Registries ==
    { <<>>,
      MainGroups,
      DuplicateGroups,
      (<<"M">> :> <<stateA2, stateA>>),
      (<<"O">> :> <<stateN>>) @@ (<<"M">> :> <<>>),
      (<<>> :> <<stateNoGroup>>),
      (<<"M">> :> <<stateBare, stateColons, stateB>>) }

InitState ==
    /\ store = <<>>
    /\ call = Idle
    /\ lastWrite = <<>>
    /\ tasks = <<>>
    /\ scope = ScopeOf(OneCaller, Proxies, {})
    /\ fn \in {[op |-> "text", groups |-> g, state |-> s]
                  : g \in Registries, s \in Texts}

ResolveState ==
    /\ fn.op = "text"
    /\ fn' = [op |-> "_state", groups |-> fn.groups, state |-> fn.state,
              out |-> _state(StorageProxy(CopyingStorage, 1, 1, 1, None,
                                          "private", fn.groups),
                             fn.state)]
    /\ UNCHANGED <<store, call, lastWrite, scope, tasks>>

NextState == ResolveState

SpecState == InitState /\ [][NextState]_vars

-----------------------------------------------------------------------------
(* SpecAccess: access-settings marshaling as pure functions; the inputs    *)
(* are every AccessSettings value (dumped, then parsed) and raw mappings   *)
(* with any of the three fields missing or ill-formed (parsed)             *)

CustomValues == {None, Some("c"), Some("")}

AccessSettingsValues ==
    {AccessSettings(u, m, c) :
        u \in UserIdLists,
        m \in {None} \cup {Some(v) : v \in ChatMemberStatusValues},
        c \in CustomValues}

\* one entry of a raw mapping: w is <<>> for a missing key, <<v>> for value v
RawField(key, w) == IF w = <<>> THEN <<>> ELSE (key :> w[1])

RawAccessValues ==
    {None} \cup
    {Some(RawField("user_ids", u) @@ RawField("member_status", m)
            @@ RawField("custom", c)) :
        u \in {<<>>} \cup {<<l>> : l \in UserIdLists},
        m \in {<<>>, <<None>>, <<Some("")>>, <<Some("administrator")>>,
               <<Some("boss")>>},
        c \in {<<>>, <<None>>, <<Some("c")>>}}

InitAccess ==
    /\ store = <<>>
    /\ call = Idle
    /\ lastWrite = <<>>
    /\ tasks = <<>>
    /\ scope = ScopeOf(OneCaller, Proxies, {})
    /\ fn \in {[op |-> "settings", in |-> a]
                  : a \in {None} \cup {Some(v) : v \in AccessSettingsValues}}
              \cup {[op |-> "raw", in |-> r] : r \in RawAccessValues}

DumpSettings ==
    /\ fn.op = "settings"
    /\ fn' = [op |-> "dumped", in |-> fn.in,
              raw |-> _dump_access_settings(fn.in)]
    /\ UNCHANGED <<store, call, lastWrite, scope, tasks>>

ParseDumped ==
    /\ fn.op = "dumped"
    /\ fn' = [op |-> "parsed", in |-> fn.in, raw |-> fn.raw,
              out |-> _parse_access_settings(fn.raw)]
    /\ UNCHANGED <<store, call, lastWrite, scope, tasks>>

ParseRaw ==
    /\ fn.op = "raw"
    /\ fn' = [op |-> "parsed_raw", in |-> fn.in,
              out |-> _parse_access_settings(fn.in)]
    /\ UNCHANGED <<store, call, lastWrite, scope, tasks>>

NextAccess ==
    \/ DumpSettings
    \/ ParseDumped
    \/ ParseRaw

SpecAccess == InitAccess /\ [][NextAccess]_vars

-----------------------------------------------------------------------------

(* Vocabulary of the properties *)

\* the key holds no record, or an empty one
NoRecord(st, key) == key \notin DOMAIN st \/ DOMAIN st[key] = {}

\* the part of a text before its first ":", by position
GroupPart(text) ==
    LET seps == {i \in 1..Len(text) : text[i] = ":"}
    IN  IF seps = {} THEN text
        ELSE SubSeq(text, 1, (CHOOSE i \in seps : \A j \in seps : i <= j) - 1)

\* positions of the members of the text's group that carry the text
Matches(groups, text) ==
    IF GroupPart(text) \in DOMAIN groups
    THEN {i \in 1..Len(groups[GroupPart(text)]) :
             groups[GroupPart(text)][i].state = text}
    ELSE {}

\* the state object is the first member, in declared order, of the group
\* named by the group part of its text that carries its text
RegisteredUnderOwnText(groups, s) ==
    /\ Matches(groups, s.state) # {}
    /\ \E i \in Matches(groups, s.state) :
          /\ groups[GroupPart(s.state)][i] = s
          /\ \A j \in Matches(groups, s.state) : i <= j

\* no history and no last message id
LogicallyEmpty(s) == s.history = <<>> /\ s.last_message_id = None

FreshStack(stack_id) == Stack(stack_id, <<>>, None, None)

\* the record the store holds under the key, the empty one when it holds none
RecordAt(st, key) == IF key \in DOMAIN st THEN st[key] ELSE EmptyDict

\* the key a load call reads
LoadKey(c) ==
    IF c.op = "load_context" THEN _context_key(c.self, c.arg)
    ELSE _stack_key(c.self, c.arg)

\* the key a save or remove call writes; None for a save of nothing
OwnKey(c) ==
    CASE c.op \in {"remove_context"} -> Some(_context_key(c.self, c.arg))
      [] c.op \in {"remove_stack"} -> Some(_stack_key(c.self, c.arg))
      [] c.op = "save_context" ->
            IF c.arg = None THEN None
            ELSE Some(_context_key(c.self, c.arg[1].id))
      [] c.op = "save_stack" ->
            IF c.arg = None THEN None
            ELSE Some(_stack_key(c.self, c.arg[1]._id))
      [] OTHER -> None

\* the store after one recorded write, made alone on the empty store
Alone(w) ==
    CASE w.op = "save_context" -> save_context(w.self, <<>>, w.arg).store
      [] w.op = "save_stack" -> save_stack(w.self, <<>>, w.arg).store
      [] w.op = "remove_context" -> remove_context(w.self, <<>>, w.arg).store
      [] w.op = "remove_stack" -> remove_stack(w.self, <<>>, w.arg).store

\* this step is the storage's access for the call of caller t
Accesses(t) ==
    /\ t \in DOMAIN tasks
    /\ tasks[t].pc = "called"
    /\ t \in DOMAIN tasks'
    /\ tasks'[t].pc = "answered"

\* this step is the return of the call of caller t
Returns(t) ==
    /\ t \in DOMAIN tasks
    /\ tasks[t].pc = "answered"
    /\ t \notin DOMAIN tasks'

\* this step is the storage's read for a load of caller t, or its return
LoadStep(t) ==
    /\ t \in DOMAIN tasks
    /\ tasks[t].op \in LoadOps
    /\ Accesses(t) \/ Returns(t)

\* the completed call c was the given load, and the record the storage read
\* for it was the one the given kind of write had left: no other write to the
\* key came between that write and the read
LoadedAfter(c, load, write) ==
    /\ c.op = load
    /\ c.source # None
    /\ c.source[1].op = write

\* the last call was load_context and the last write to its key, when the
\* storage read it, was a save_context
LoadedSavedContext == LoadedAfter(call, "load_context", "save_context")

SavedContext == call.source[1].arg[1]

\* the last call was load_stack and the last write to its key, when the
\* storage read it, was a save_stack
LoadedSavedStack == LoadedAfter(call, "load_stack", "save_stack")

SavedStack == call.source[1].arg[1]

-----------------------------------------------------------------------------
(* Properties *)

\* C1 as stated: for every Context whose state is a member of a registered
\* group, load_context after save_context, with no write to the key in
\* between, returns the saved context.
C1_RoundTripOfAnyMember ==
    (LoadedSavedContext
        /\ SavedContext.state \in RegistryStates(call.self.state_groups))
    => call.outcome = Return(SavedContext)

\* C1 (amended): for every Context whose state is registered under its own
\* text (the first member, in declared order, of the group named by the part
\* of its text before the first ":" that carries that text), load_context
\* after save_context, with no write to the key in between, returns a context
\* with the same id, the same state object and the same remaining fields.
C1_RoundTrip ==
    (LoadedSavedContext
        /\ RegisteredUnderOwnText(call.self.state_groups, SavedContext.state))
    => call.outcome = Return(SavedContext)

C1_Witness ==
    /\ LoadedSavedContext
    /\ RegisteredUnderOwnText(call.self.state_groups, SavedContext.state)
    /\ SavedContext.state = stateB
    /\ SavedContext.dialog_data = "d1"
    /\ call.outcome = Return(SavedContext)

\* C2: for every Stack with non-empty history or a set last message id (any
\* set value), load_stack after save_stack, with no write to the key in
\* between, returns the saved stack, access settings included.
C2_RoundTrip ==
    (LoadedSavedStack
        /\ (SavedStack.history # <<>> \/ SavedStack.last_message_id # None))
    => call.outcome = Return(SavedStack)

\* C3: load_context of a key that holds no record or an empty record fails
\* with UnknownIntent; load_stack of such a key returns a fresh Stack with the
\* id, no history, no last message id and no access settings.  (The mapping
\* a load gets is the record its key holds when the storage reads it.)
C3_MissingRecord ==
    [][ /\ \A t \in DOMAIN tasks :
              (Accesses(t) /\ tasks[t].op \in LoadOps)
              => tasks'[t].read = RecordAt(store, LoadKey(tasks[t]))
        /\ (call'.op = "load_context" /\ DOMAIN call'.read[1] = {})
           => call'.outcome = Raise("UnknownIntent", call'.arg)
        /\ (call'.op = "load_stack" /\ DOMAIN call'.read[1] = {})
           => call'.outcome = Return(FreshStack(call'.arg)) ]_vars

C3_Witness ==
    /\ call.op = "load_stack"
    /\ call.source # None
    /\ call.read = Some(EmptyDict)
    /\ _stack_key(call.self, call.arg) \in DOMAIN store
    /\ store[_stack_key(call.self, call.arg)] = EmptyDict
    /\ _context_key(call.self, call.arg) \notin DOMAIN store
    /\ call.outcome = Return(FreshStack(call.arg))

\* C4: a remove_context (remove_stack) leaves no record under its key, and a
\* second one of the same id leaves the store as the first left it; after
\* remove_context the load_context of the id fails with UnknownIntent, after
\* remove_stack the load_stack of the id returns a fresh empty stack.
C4_IdempotentTombstone ==
    [][ /\ \A t \in DOMAIN tasks :
              (Accesses(t) /\ tasks[t].op \in {"remove_context",
                                               "remove_stack"})
              => /\ NoRecord(store', OwnKey(tasks[t])[1])
                 /\ (/\ OwnKey(tasks[t])[1] \in DOMAIN lastWrite
                     /\ lastWrite[OwnKey(tasks[t])[1]].op = tasks[t].op)
                    => store' = store
        /\ LoadedAfter(call', "load_context", "remove_context")
           => call'.outcome = Raise("UnknownIntent", call'.arg)
        /\ LoadedAfter(call', "load_stack", "remove_stack")
           => call'.outcome = Return(FreshStack(call'.arg)) ]_vars

C4_Witness ==
    /\ LoadedAfter(call, "load_context", "remove_context")
    /\ call.outcome = Raise("UnknownIntent", call.arg)
    /\ _context_key(call.self, call.arg) \in DOMAIN lastWrite
    /\ lastWrite[_context_key(call.self, call.arg)].op = "remove_context"
    /\ _stack_key(call.self, call.arg) \in DOMAIN lastWrite
    /\ lastWrite[_stack_key(call.self, call.arg)].op = "remove_stack"

\* C5: save_stack of a stack with empty history and no last message id leaves
\* an empty record under its key, whatever its access settings and whatever
\* the key held; the load_stack that follows returns a stack with no access
\* settings, no history and no last message id.
C5_EmptyStackTombstone ==
    [][ /\ \A t \in DOMAIN tasks :
              (Accesses(t) /\ tasks[t].op = "save_stack"
                 /\ LogicallyEmpty(tasks[t].arg[1]))
              => /\ OwnKey(tasks[t])[1] \in DOMAIN store'
                 /\ store'[OwnKey(tasks[t])[1]] = EmptyDict
        /\ (LoadedAfter(call', "load_stack", "save_stack")
              /\ LogicallyEmpty(call'.source[1].arg[1]))
           => call'.outcome = Return(FreshStack(call'.arg)) ]_vars

C5_Witness ==
    /\ LoadedSavedStack
    /\ LogicallyEmpty(SavedStack)
    /\ SavedStack.access_settings # None
    /\ call.read = Some(EmptyDict)
    /\ call.outcome = Return(FreshStack(call.arg))

\* C6: state resolution fails with UnknownState when the part of the text
\* before the first ":" is not a key of the registry; otherwise it returns the
\* first member of that group, in declared order, whose text equals the whole
\* text, and fails with UnknownState when there is none.  What it returns is
\* a state object of the registry.
C6_StateResolution ==
    fn.op = "_state" =>
        IF Matches(fn.groups, fn.state) = {}
        THEN fn.out.kind = "raise" /\ fn.out.exc = "UnknownState"
        ELSE /\ fn.out.kind = "return"
             /\ fn.out.value \in RegistryStates(fn.groups)
             /\ \E i \in Matches(fn.groups, fn.state) :
                   /\ fn.out.value = fn.groups[GroupPart(fn.state)][i]
                   /\ \A j \in Matches(fn.groups, fn.state) : i <= j

C6_Witness ==
    /\ fn.op = "_state"
    /\ Cardinality(Matches(fn.groups, fn.state)) = 2
    /\ fn.groups = DuplicateGroups
    /\ fn.out = Return(stateA)

\* C7: a Context that load_context returns carries a state of the registry;
\* when the record's state text has no registered group or no member with
\* that text, load_context fails with UnknownState and the store is as it was.
C7_ResolvedOrUnknownState ==
    [][ /\ (call'.op = "load_context" /\ call'.outcome.kind = "return")
           => call'.outcome.value.state
                 \in RegistryStates(call'.self.state_groups)
        /\ (call'.op = "load_context"
              /\ DOMAIN call'.read[1] # {}
              /\ Matches(call'.self.state_groups, call'.read[1].state) = {})
           => /\ call'.outcome.kind = "raise"
              /\ call'.outcome.exc = "UnknownState"
        /\ \A t \in DOMAIN tasks :
              (LoadStep(t) /\ tasks[t].op = "load_context")
              => store' = store ]_vars

C7_Witness ==
    /\ call.op = "load_context"
    /\ call.outcome.kind = "raise"
    /\ call.outcome.exc = "UnknownState"
    /\ call.outcome.about = "group"
    /\ DOMAIN call.read[1] # {}
    /\ ~NoRecord(store, _context_key(call.self, call.arg))

\* C8: load_stack of a non-empty record that has no access_settings field
\* returns a stack with no access settings.
C8_RecordWithoutAccessSettings ==
    (/\ call.op = "load_stack"
     /\ DOMAIN call.read[1] # {}
     /\ "access_settings" \notin DOMAIN call.read[1])
    => /\ call.outcome.kind = "return"
       /\ call.outcome.value.access_settings = None

\* C9: parsing the dump of no AccessSettings gives none; parsing the dump of
\* an AccessSettings gives an AccessSettings with the same user_ids,
\* member_status and custom, also when all three are empty.
C9_AccessSettingsRoundTrip ==
    fn.op = "parsed" =>
        /\ fn.out.kind = "return"
        /\ fn.in = None => fn.out.value = None
        /\ fn.in # None =>
              /\ fn.out.value # None
              /\ fn.out.value[1].user_ids = fn.in[1].user_ids
              /\ fn.out.value[1].member_status = fn.in[1].member_status
              /\ fn.out.value[1].custom = fn.in[1].custom

C9_Witness ==
    /\ fn.op = "parsed"
    /\ fn.in = Some(AccessSettings(<<>>, None, None))
    /\ fn.out = Return(fn.in)

\* C10 as stated: every load makes exactly one store read and no write, every
\* save and remove exactly one store write and no read.
C10_OneAccessPerCall ==
    /\ call.op \in {"load_context", "load_stack"}
       => /\ Len(call.accesses) = 1
          /\ call.accesses[1][1] = "get_data"
    /\ call.op \in {"save_context", "save_stack", "remove_context",
                    "remove_stack"}
       => /\ Len(call.accesses) = 1
          /\ call.accesses[1][1] = "set_data"

\* C10 (amended): every load makes exactly one store read, of its own key,
\* and no write, also when it fails; every remove and every save of a present
\* entity makes exactly one store write, to its own key, and no read; a save
\* of an absent entity makes no store access.
C10_OneAccessPerEntityCall ==
    /\ call.op = "load_context"
       => call.accesses = <<<<"get_data", _context_key(call.self, call.arg)>>>>
    /\ call.op = "load_stack"
       => call.accesses = <<<<"get_data", _stack_key(call.self, call.arg)>>>>
    /\ call.op = "remove_context"
       => call.accesses = <<<<"set_data", _context_key(call.self, call.arg)>>>>
    /\ call.op = "remove_stack"
       => call.accesses = <<<<"set_data", _stack_key(call.self, call.arg)>>>>
    /\ call.op = "save_context"
       => call.accesses =
             IF call.arg = None THEN <<>>
             ELSE <<<<"set_data", _context_key(call.self, call.arg[1].id)>>>>
    /\ call.op = "save_stack"
       => call.accesses =
             IF call.arg = None THEN <<>>
             ELSE <<<<"set_data", _stack_key(call.self, call.arg[1]._id)>>>>

C10_Witness ==
    /\ call.op = "load_context"
    /\ call.outcome.kind = "raise"
    /\ call.outcome.exc = "UnknownState"
    /\ call.accesses = <<<<"get_data", _context_key(call.self, call.arg)>>>>

KeyIds == {"x", "y", "", ":", "stack:x", "context:x", "x:stack:x"}

\* C12: the context key of an id differs from the stack key of any id, and
\* distinct ids of one kind have distinct keys; a save or remove changes no
\* record but the one under its own key; and every key holds the record that
\* the last operation on that key leaves when it runs alone.
C12_KeysApart ==
    /\ \A self \in Proxies : \A i \in KeyIds, j \in KeyIds :
          /\ _context_key(self, i) # _stack_key(self, j)
          /\ i # j => /\ _context_key(self, i) # _context_key(self, j)
                      /\ _stack_key(self, i) # _stack_key(self, j)
    /\ [][ /\ \A t \in DOMAIN tasks :
                 (Accesses(t) /\ tasks[t].op \in WriteOps)
                 => \A k \in DOMAIN store \cup DOMAIN store' :
                       Some(k) # OwnKey(tasks[t])
                       => /\ k \in DOMAIN store
                          /\ k \in DOMAIN store'
                          /\ store'[k] = store[k]
           /\ \A k \in DOMAIN store' :
                 /\ k \in DOMAIN Alone(lastWrite'[k])
                 /\ store'[k] = Alone(lastWrite'[k])[k] ]_vars

C12_Witness ==
    /\ Cardinality(DOMAIN store) = 3
    /\ call.op = "save_stack"
    /\ call.arg # None
    /\ DOMAIN store[_stack_key(call.self, "x")] # {}
    /\ DOMAIN store[_context_key(call.self, "x")] # {}
    /\ DOMAIN store[_context_key(call.self, "y")] # {}
    /\ lastWrite[_context_key(call.self, "x")].arg[1].state = stateA
    /\ lastWrite[_context_key(call.self, "y")].arg[1].state = stateB

\* C13: save_context(None) and save_stack(None) return without any access to
\* the store and leave it as it was; a save of a present Context or Stack,
\* whatever its fields hold, is carried out: it writes its own key, once.
C13_OnlyNoneIsAbsent ==
    [][ /\ (call'.op \in {"save_context", "save_stack"} /\ tasks' = tasks)
           => /\ call'.arg = None
              /\ store' = store
        /\ call'.op \in {"save_context", "save_stack"}
           => IF call'.arg = None
              THEN /\ call'.accesses = <<>>
                   /\ call'.outcome = Return(None)
              ELSE call'.accesses = <<<<"set_data", OwnKey(call')[1]>>>>
        /\ \A t \in DOMAIN tasks' :
              tasks'[t].op \in {"save_context", "save_stack"}
              => tasks'[t].arg # None
        /\ \A t \in DOMAIN tasks :
              (Accesses(t) /\ tasks[t].op \in {"save_context", "save_stack"})
              => /\ OwnKey(tasks[t])[1] \in DOMAIN store'
                 /\ lastWrite'[OwnKey(tasks[t])[1]]
                       = [op |-> tasks[t].op, self |-> tasks[t].self,
                          arg |-> tasks[t].arg] ]_vars

C13_Witness ==
    /\ call.op = "save_stack"
    /\ call.arg # None
    /\ call.arg[1].history = <<>>
    /\ call.arg[1].last_message_id = None
    /\ call.arg[1].access_settings = None
    /\ call.accesses # <<>>
    /\ store[_stack_key(call.self, call.arg[1]._id)] = EmptyDict

\* C14: from the empty store, after any saves and removes, no stack key holds
\* a populated record with empty history and absent last message id; and
\* save_stack of a stack with non-empty history or a set last message id
\* writes the populated record, never the tombstone.
C14_StackKeyInvariant ==
    [][ /\ \A self \in scope.proxies, i \in scope.stack_ids :
              LET k == _stack_key(self, i)
              IN  (k \in DOMAIN store' /\ store'[k] # EmptyDict)
                  => ~(store'[k].history = <<>>
                         /\ store'[k].last_message_id = None)
        /\ \A t \in DOMAIN tasks :
              (Accesses(t) /\ tasks[t].op = "save_stack"
                 /\ (tasks[t].arg[1].history # <<>>
                       \/ tasks[t].arg[1].last_message_id # None))
              => store'[OwnKey(tasks[t])[1]] # EmptyDict ]_vars

\* the store that holds nothing but what the write left whose record the
\* storage read for the completed load c
SourceAlone(c) == IF c.source = None THEN <<>> ELSE Alone(c.source[1])

\* C15: a load, through the writing proxy or another proxy of the same
\* conversation, gives what it gives on a store holding only the most recent
\* write to its key: the missing-record outcome after a tombstone, and after
\* a populated record no entity but the saved one.
C15_LastWriteWins ==
    /\ call.op = "load_context"
       => LET key == _context_key(call.self, call.arg)
              alone == SourceAlone(call)
          IN  /\ call.outcome
                   = load_context(call.self, alone, call.arg).outcome
              /\ NoRecord(alone, key)
                 => call.outcome = Raise("UnknownIntent", call.arg)
              /\ (~NoRecord(alone, key) /\ call.outcome.kind = "return")
                 => call.outcome = Return(call.source[1].arg[1])
    /\ call.op = "load_stack"
       => LET key == _stack_key(call.self, call.arg)
              alone == SourceAlone(call)
          IN  /\ call.outcome = load_stack(call.self, alone, call.arg).outcome
              /\ NoRecord(alone, key)
                 => call.outcome = Return(FreshStack(call.arg))
              /\ (~NoRecord(alone, key) /\ call.outcome.kind = "return")
                 => call.outcome = Return(call.source[1].arg[1])

\* a load through MainProxy of a context its twin saved over an earlier record
C15_Witness ==
    /\ call.op = "load_context"
    /\ call.self = MainProxy
    /\ TwinProxy \in scope.proxies
    /\ call.source # None
    /\ call.source[1].self = TwinProxy
    /\ call.source[1].op = "save_context"
    /\ call.outcome = Return(Context("x", stateB, "d1"))
    /\ _stack_key(call.self, call.arg) \in DOMAIN lastWrite
    /\ lastWrite[_stack_key(call.self, call.arg)].op = "remove_stack"

\* C16: load_stack of a record whose access_settings holds a non-empty
\* member_status outside the membership statuses fails with the ValueError of
\* the status decoding, returns no stack and writes nothing; an absent or
\* empty member_status gives settings without member status, a missing
\* user_ids gives the empty list.
C16_UnknownMemberStatus ==
    [][ /\ (/\ call'.op = "load_stack"
            /\ DOMAIN call'.read[1] # {}
            /\ "access_settings" \in DOMAIN call'.read[1]
            /\ call'.read[1].access_settings # None
            /\ call'.read[1].access_settings[1] # EmptyDict)
           => LET raw == call'.read[1].access_settings[1]
                  status == DictGet(raw, "member_status")
              IN  IF status # None /\ status[1] # ""
                       /\ status[1] \notin ChatMemberStatusValues
                  THEN /\ call'.outcome = Raise("ValueError", "member_status")
                       /\ Written(call'.accesses) = {}
                  ELSE /\ call'.outcome.kind = "return"
                       /\ call'.outcome.value.access_settings # None
                       /\ (status = None \/ status[1] = "")
                          => call'.outcome.value.access_settings[1]
                                .member_status = None
                       /\ "user_ids" \notin DOMAIN raw
                          => call'.outcome.value.access_settings[1].user_ids
                                = <<>>
        /\ \A t \in DOMAIN tasks :
              (LoadStep(t) /\ tasks[t].op = "load_stack")
              => /\ store' = store
                 /\ lastWrite' = lastWrite ]_vars

C16_Witness ==
    /\ call.op = "load_stack"
    /\ call.outcome = Raise("ValueError", "member_status")
    /\ call.read[1].access_settings[1].member_status = Some("boss")
    /\ call.read[1].history = <<"x">>
    /\ store[_stack_key(call.self, call.arg)] = call.read[1]

\* the proxies whose keys are compared
AllProxies == {MainProxy, TwinProxy} \cup OtherProxies

\* C17: proxies that differ in bot id, chat id, user id or thread id (no
\* thread being a value of its own) have no key in common, whatever the ids
\* and the kinds, while chat_type changes no key; and a save or remove through
\* one proxy leaves every load_context and load_stack through a proxy of
\* another conversation with the result it had.
C17_ConversationsApart ==
    /\ \A p \in AllProxies, q \in AllProxies :
          \A i \in KeyIds, j \in KeyIds :
             IF SameConversation(p, q)
             THEN /\ _context_key(p, i) = _context_key(q, i)
                  /\ _stack_key(p, i) = _stack_key(q, i)
             ELSE /\ _context_key(p, i) # _context_key(q, j)
                  /\ _stack_key(p, i) # _stack_key(q, j)
                  /\ _context_key(p, i) # _stack_key(q, j)
    /\ [][ \A t \in DOMAIN tasks :
              (Accesses(t) /\ tasks[t].op \in WriteOps)
              => \A q \in scope.proxies :
                    ~SameConversation(q, tasks[t].self)
                    => /\ \A i \in scope.intent_ids :
                             load_context(q, store', i).outcome
                                = load_context(q, store, i).outcome
                       /\ \A i \in scope.stack_ids :
                             load_stack(q, store', i).outcome
                                = load_stack(q, store, i).outcome ]_vars

\* a save through the proxy of another thread next to the records MainProxy
\* wrote under the same ids
C17_Witness ==
    /\ call.op = "save_context"
    /\ call.self = OtherThread
    /\ call.arg = Some(Context("x", stateB, "d1"))
    /\ load_context(MainProxy, store, "x").outcome
          = Return(Context("x", stateA, "d0"))
    /\ load_context(OtherThread, store, "x").outcome
          = Return(Context("x", stateB, "d1"))
    /\ _stack_key(MainProxy, "x") \in DOMAIN lastWrite
    /\ lastWrite[_stack_key(MainProxy, "x")].op = "save_stack"
    /\ load_stack(OtherThread, store, "x").outcome = Return(FreshStack("x"))

\* C18: after save_context(c) and save_stack(s) the caller's entity is as it
\* was handed in, its state still the State object and its access_settings
\* still the AccessSettings object; the record written holds the state text
\* and the dumped access settings.
C18_EntityUntouched ==
    /\ (call.op = "save_context" /\ call.arg # None)
       => /\ call.entity = call.arg
          /\ call.entity[1].state \in StateObjects
    /\ (call.op = "save_stack" /\ call.arg # None)
       => call.entity = call.arg
    /\ \A k \in DOMAIN lastWrite :
          /\ lastWrite[k].op = "save_context"
             => /\ k = OwnKey(lastWrite[k])[1]
                /\ store[k].state = lastWrite[k].arg[1].state.state
          /\ (lastWrite[k].op = "save_stack" /\ ~NoRecord(store, k))
             => /\ k = OwnKey(lastWrite[k])[1]
                /\ store[k].access_settings
                      = _dump_access_settings(
                            lastWrite[k].arg[1].access_settings)

C18_Witness ==
    /\ call.op = "save_stack"
    /\ call.arg # None
    /\ call.arg[1].access_settings
          = Some(AccessSettings(<<1>>, Some("administrator"), Some("c")))
    /\ call.arg[1].history # <<>>
    /\ call.entity[1].access_settings = call.arg[1].access_settings
    /\ store[_stack_key(call.self, call.arg[1]._id)].access_settings
          = Some([user_ids |-> <<1>>, member_status |-> Some("administrator"),
                  custom |-> Some("c")])

\* the complete record of a caller's save: what the save leaves under its key
\* when it runs alone
RecordOf(t) == Alone(tasks[t])[OwnKey(tasks[t])[1]]

\* C19: with two saves of one id in flight, whatever the store holds and
\* whatever the other caller has done, the write of a caller that awaits
\* set_data can be the next and puts the caller's complete record under the
\* key, nothing in the proxy orders the two writes; the key holds nothing, or
\* the complete record of the save written last, never fields of both.
C19_WholeRecordWrites ==
    /\ \A t \in DOMAIN tasks :
          tasks[t].pc = "called"
          => ENABLED (/\ StorageSetData
                      /\ tasks'[t].pc = "answered"
                      /\ store'[OwnKey(tasks[t])[1]] = RecordOf(t))
    /\ \A k \in DOMAIN store :
          /\ k \in DOMAIN lastWrite
          /\ k = OwnKey(lastWrite[k])[1]
          /\ store[k] = Alone(lastWrite[k])[k]

\* both writes carried out and neither call over, caller a's write the last:
\* the key holds a's context whole
C19_Witness ==
    /\ DOMAIN tasks = Callers
    /\ \A t \in Callers : tasks[t].pc = "answered"
    /\ tasks["a"].op = "save_context"
    /\ tasks["a"].arg = Some(Context("x", stateA, "d0"))
    /\ tasks["b"].arg = Some(Context("x", stateB, "d1"))
    /\ lastWrite[OwnKey(tasks["a"])[1]].arg = tasks["a"].arg
    /\ store[OwnKey(tasks["a"])[1]] = [id |-> "x", state |-> stateA.state,
                                       dialog_data |-> "d0"]

====
